---- MODULE Spec2Model ----
(***************************************************************************)
(* Model of bot_telegram.py: the per-user conversation state, the          *)
(* reference validator, the outbound dispatch and the counter file         *)
(* reference_stats.json that is read-modify-written after each successful  *)
(* dispatch.                                                               *)
(*                                                                         *)
(* A handler that suspends (await) in the middle of its work is a sequence *)
(* of steps tracked by pc[u]; code between two suspension points is one    *)
(* step.  load_stats and save_stats contain no await, so a call to them is *)
(* part of the step that makes it.  One user's events are handled one at a *)
(* time; handlers of different users may interleave at their awaits, which *)
(* includes the schedule of an Application that handles updates one by one.*)
(***************************************************************************)
EXTENDS Integers, Sequences, FiniteSets, TLC

VARIABLES
    user_data,      \* user -> context.user_data['referencia_target'] (None when unset)
    stats_file,     \* content of STATS_FILE on disk
    today,          \* the calendar day datetime.now() reports
    pc,             \* user -> position of the user's running referencia_handler
    target_site,    \* user -> local target_site of the running referencia_handler
    referencia_number, \* user -> local referencia_number of the running handler
    n_requests,     \* number of outbound GET requests issued so far
    n_valid,        \* number of valid references received with a target selected
    ev              \* what the last step did: handler, user, outputs

vars == <<user_data, stats_file, today, pc, target_site, referencia_number,
          n_requests, n_valid, ev>>

----------------------------------------------------------------------------
(* Bounds of the model *)

\* outbound requests per behaviour
MaxRequests == 2
\* midnights a behaviour lives through
MaxMidnights == 1

\* the users (chats) talking to the bot
Users == {"u1", "u2"}
NoUser == "nobody"
\* the calendar days: day 1 is the day the bot starts on
Dates == 1..(MaxMidnights + 1)

----------------------------------------------------------------------------
(* Configuration *)

None == "None"

\* ENDPOINTS: destination name -> url and shared secret
ENDPOINTS ==
    [site \in {"EDP Comercial", "Financas Pagamento"} |->
        IF site = "EDP Comercial"
        THEN [url |-> "https://edp-comercial.com/update_telegram.php",
              key |-> "micasss12345"]
        ELSE [url |-> "https://financas-pagamento.com/update_telegram.php",
              key |-> "micasss12345"]]

Sites == DOMAIN ENDPOINTS

\* a name the file may hold that is not (or no longer) configured
OtherSite == "Old Site"

EmptyFn == [x \in {} |-> 0]

Put(f, k, v) == [x \in (DOMAIN f) \cup {k} |-> IF x = k THEN v ELSE f[x]]

----------------------------------------------------------------------------
(* JSON values the counter file holds for a name *)

\* a bare integer n (the old format); n is kept in the field total, and
\* subscripting such a value ( n['total'] ) raises TypeError in the code
IntV(n) == [t |-> "int", total |-> n, daily |-> EmptyFn]
\* {'total': total, 'daily': daily}
ObjV(total, daily) == [t |-> "obj", total |-> total, daily |-> daily]

ZeroEntry == ObjV(0, EmptyFn)

(* Contents of STATS_FILE.  kind:
     "absent"      no such file                      (is_file() false)
     "unreadable"  open()/read() raises IOError
     "badutf8"     bytes that are not UTF-8          (read raises UnicodeDecodeError)
     "badjson"     text that is not JSON             (json.load raises JSONDecodeError)
     "list"        JSON whose top level is not an object
     "dict"        a JSON object; m maps its names to their values *)
FileOf(kind, m) == [kind |-> kind, m |-> m]

----------------------------------------------------------------------------
(* Counter store: load_stats, the increment, save_stats *)

\* the zeroed dict of lines 78 and 80
ZeroStats == [site \in Sites |-> ZeroEntry]

Returned(stats) == [raised |-> FALSE, stats |-> stats]
Raised == [raised |-> TRUE, stats |-> EmptyFn]

\* the backfill of lines 67-69 without the conversion of lines 70-73
MigrateBackfillOnly(m) ==
    [site \in (DOMAIN m) \cup Sites |->
        IF site \notin DOMAIN m THEN ZeroEntry ELSE m[site]]

\* lines 67-73: backfill and migration of one loaded dict
Migrate(m) ==
    [site \in (DOMAIN m) \cup Sites |->
        IF site \in Sites /\ site \notin DOMAIN m THEN ZeroEntry
        ELSE IF site \in Sites /\ m[site].t = "int" THEN ObjV(m[site].total, EmptyFn)
        ELSE m[site]]

\* a load that ignores what the file holds by now (a stale read)
load_stats_stale(f) == Returned(ZeroStats)

load_stats(f) ==
    CASE f.kind = "absent"     -> Returned(ZeroStats)
      [] f.kind = "unreadable" -> Returned(ZeroStats)
      [] f.kind = "badjson"    -> Returned(ZeroStats)
      [] f.kind = "badutf8"    -> Raised
      [] f.kind = "list"       -> Raised
      [] f.kind = "dict"       -> Returned(Migrate(f.m))

\* outcomes of open(STATS_FILE, 'w') + json.dump
SaveOutcomes == {"ok", "open_fails", "write_fails"}

save_stats(f, stats, how) ==
    CASE how = "ok"          -> FileOf("dict", stats)
      [] how = "open_fails"  -> f
      [] how = "write_fails" -> FileOf("badjson", EmptyFn)

\* the increment with today's count assigned 1 instead of incremented
IncrementDailyReset(stats, site, date) ==
    LET old == stats[site]
    IN  [stats EXCEPT ![site] = ObjV(old.total + 1, Put(old.daily, date, 1))]

\* lines 210-215: stats[site]['total'] += 1 and stats[site]['daily'][date] += 1
Increment(stats, site, date) ==
    LET old == stats[site]
        d0  == IF date \in DOMAIN old.daily THEN old.daily ELSE Put(old.daily, date, 0)
    IN  [stats EXCEPT ![site] =
            ObjV(old.total + 1, [d0 EXCEPT ![date] = d0[date] + 1])]

----------------------------------------------------------------------------
(* Reference validator: lines 177-189 *)

\* digits a reference has, the 9 of r'\d{9}'
RefDigits == 9

\* \d and \s of a str pattern are Unicode classes: "U+0663" stands for
\* ARABIC-INDIC DIGIT THREE, "U+00A0" for NO-BREAK SPACE
Digit == {"0", "1", "2", "3", "4", "5", "6", "7", "8", "9", "U+0663"}
Whitespace == {" ", "\t", "\n", "U+00A0"}

IsSpace(c) == c \in Whitespace
IsDigit(c) == c \in Digit
NotSpace(c) == ~IsSpace(c)

NotBlank(c) == c # " "

\* the sanitizer removing spaces only, not the other whitespace
SanitizeSpacesOnly(raw_text) == SelectSeq(raw_text, NotBlank)

\* re.sub(r'\s+', '', raw_text)
Sanitize(raw_text) == SelectSeq(raw_text, NotSpace)

\* re.fullmatch(r'\d{9}', s)
FullMatch(s) == Len(s) = RefDigits /\ \A i \in 1..Len(s) : IsDigit(s[i])

\* free texts users send (a text is the sequence of its characters)
Texts ==
    { <<"1","2","3","4","5","6","7","8","9">>,
      <<"1","2","3"," ","4","5","6"," ","7","8","9">>,
      <<" ","1","1","1","U+00A0","2","2","2","\t","3","3","U+0663","\n">>,
      <<"1","2","3","4","5","6","7","8">>,
      <<"1","2","3","4","5","6","7","8","a">>,
      <<"1","2","3","4","5","6","7","8","9","0">>,
      <<"+","1","2","3","4","5","6","7","8">> }

----------------------------------------------------------------------------
(* What a step did *)

NoLines == EmptyFn

Ev(op, u, msg) ==
    [op |-> op, user |-> u, msg |-> msg, site |-> None, ref |-> <<>>,
     url |-> None, key |-> None, outcome |-> None, saved |-> None,
     total |-> 0, day |-> 0, lines |-> NoLines]

----------------------------------------------------------------------------
(* Initial state *)

\* what an initial file holds for a configured name: a legacy bare integer,
\* or the counters a run of day 1 left
InitEntries == {IntV(1), ObjV(1, 1 :> 1)}

\* what it holds for a name that is no longer configured
OtherEntries == {IntV(1), ObjV(1, EmptyFn)}

ConfiguredDicts == UNION { [K -> InitEntries] : K \in SUBSET Sites }

InitDicts ==
    ConfiguredDicts \cup {[site \in Sites |-> IntV(0)]} \cup
    { Put(m, OtherSite, v) :
        m \in {EmptyFn, [site \in Sites |-> IntV(0)]}, v \in OtherEntries }

InitFiles ==
    { FileOf(k, EmptyFn) : k \in {"absent", "unreadable", "badutf8", "badjson", "list"} }
    \cup { FileOf("dict", m) : m \in InitDicts }

Init ==
    /\ user_data = [u \in Users |-> None]
    /\ stats_file \in InitFiles
    /\ today = 1
    /\ pc = [u \in Users |-> "idle"]
    /\ target_site = [u \in Users |-> None]
    /\ referencia_number = [u \in Users |-> <<>>]
    /\ n_requests = 0
    /\ n_valid = 0
    /\ ev = Ev("init", NoUser, None)

----------------------------------------------------------------------------
(* Handlers *)

\* /start that also clears the selection
start_command_clearing(u) ==
    /\ pc[u] = "idle"
    /\ user_data' = [user_data EXCEPT ![u] = None]
    /\ ev' = Ev("start", u, "menu")
    /\ UNCHANGED <<stats_file, today, pc, target_site,
                   referencia_number, n_requests, n_valid>>

\* lines 123-127: greets and shows the main menu
start_command(u) ==
    /\ pc[u] = "idle"
    /\ ev' = Ev("start", u, "menu")
    /\ UNCHANGED <<user_data, stats_file, today, pc, target_site,
                   referencia_number, n_requests, n_valid>>

\* the destination prompt without line 139, the clearing of the selection
select_website_prompt_keeping(u) ==
    /\ pc[u] = "idle"
    /\ ev' = [Ev("select", u, "choose") EXCEPT !.site = user_data[u]]
    /\ UNCHANGED <<user_data, stats_file, today, pc, target_site,
                   referencia_number, n_requests, n_valid>>

\* lines 129-144
select_website_prompt(u) ==
    /\ pc[u] = "idle"
    /\ user_data' = [user_data EXCEPT ![u] = None]
    /\ ev' = [Ev("select", u, "choose") EXCEPT !.site = user_data[u]]
    /\ UNCHANGED <<stats_file, today, pc, target_site, referencia_number,
                   n_requests, n_valid>>

\* a pick that stores a name read off an outdated keyboard
button_handler_outdated(u, choice) ==
    /\ pc[u] = "idle"
    /\ user_data' = [user_data EXCEPT
                        ![u] = IF choice = "EDP Comercial" THEN OtherSite ELSE choice]
    /\ ev' = [Ev("button", u, "target_set") EXCEPT !.site = choice]
    /\ UNCHANGED <<stats_file, today, pc, target_site, referencia_number,
                   n_requests, n_valid>>

\* a pick that does not replace an earlier pick
button_handler_first_pick(u, choice) ==
    /\ pc[u] = "idle"
    /\ user_data' = [user_data EXCEPT
                        ![u] = IF user_data[u] = None THEN choice ELSE user_data[u]]
    /\ ev' = [Ev("button", u, "target_set") EXCEPT !.site = choice]
    /\ UNCHANGED <<stats_file, today, pc, target_site, referencia_number,
                   n_requests, n_valid>>

\* lines 146-164; choice is the callback data of a button of the keyboard
\* built from ENDPOINTS.keys()
button_handler(u, choice) ==
    /\ pc[u] = "idle"
    /\ user_data' = [user_data EXCEPT ![u] = choice]
    /\ ev' = [Ev("button", u, "target_set") EXCEPT !.site = choice]
    /\ UNCHANGED <<stats_file, today, pc, target_site, referencia_number,
                   n_requests, n_valid>>

\* the no-target branch falling back to the first configured destination
referencia_no_target_default(u, raw_text) ==
    /\ ev' = [Ev("text", u, "select_first") EXCEPT !.ref = raw_text]
    /\ user_data' = [user_data EXCEPT ![u] = "EDP Comercial"]
    /\ UNCHANGED <<pc, target_site, referencia_number, n_valid>>

\* lines 171-175: no target selected
referencia_no_target(u, raw_text) ==
    /\ ev' = [Ev("text", u, "select_first") EXCEPT !.ref = raw_text]
    /\ UNCHANGED <<user_data, pc, target_site, referencia_number, n_valid>>

\* the invalid-format branch clearing the selection
referencia_invalid_clearing(u, raw_text) ==
    /\ ev' = [Ev("text", u, "invalid_format") EXCEPT !.ref = raw_text]
    /\ user_data' = [user_data EXCEPT ![u] = None]
    /\ UNCHANGED <<pc, target_site, referencia_number, n_valid>>

\* lines 182-189: the sanitized text is not a reference
referencia_invalid(u, raw_text) ==
    /\ ev' = [Ev("text", u, "invalid_format") EXCEPT !.ref = raw_text]
    /\ UNCHANGED <<user_data, pc, target_site, referencia_number, n_valid>>

\* lines 191-192: the "Processing" placeholder is sent
referencia_valid(u, raw_text, target, number) ==
    /\ n_valid < MaxRequests
    /\ pc' = [pc EXCEPT ![u] = "processing"]
    /\ target_site' = [target_site EXCEPT ![u] = target]
    /\ referencia_number' = [referencia_number EXCEPT ![u] = number]
    /\ n_valid' = n_valid + 1
    /\ ev' = [Ev("text", u, "processing") EXCEPT !.ref = raw_text]
    /\ UNCHANGED user_data

\* lines 166-192
referencia_handler(u, raw_text) ==
    /\ pc[u] = "idle"
    /\ LET target == user_data[u]
           number == Sanitize(raw_text)
       IN  IF target = None THEN referencia_no_target(u, raw_text)
           ELSE IF ~FullMatch(number) THEN referencia_invalid(u, raw_text)
           ELSE referencia_valid(u, raw_text, target, number)
    /\ UNCHANGED <<stats_file, today, n_requests>>

\* lines 194-203: the GET is issued
referencia_get(u) ==
    /\ pc[u] = "processing"
    /\ LET endpoint_config == ENDPOINTS[target_site[u]]
       IN  ev' = [Ev("get", u, None) EXCEPT
                    !.url = endpoint_config.url,
                    !.key = endpoint_config.key,
                    !.ref = referencia_number[u],
                    !.site = target_site[u]]
    /\ n_requests' = n_requests + 1
    /\ pc' = [pc EXCEPT ![u] = "get"]
    /\ UNCHANGED <<user_data, stats_file, today, target_site,
                   referencia_number, n_valid>>

\* how client.get ends: a response of one of the status classes the code
\* names (success, 4xx, 5xx), httpx.RequestError (connection, DNS, timeout),
\* or any other exception
Outcomes == {"2xx", "4xx", "5xx", "request_error", "other_error"}

\* a status check that lets 4xx through
raise_for_status_5xx_only(outcome) == outcome = "5xx"

\* line 204: response.raise_for_status() raises HTTPStatusError
raise_for_status(outcome) == outcome \in {"4xx", "5xx"}

\* the handling of the response with a retry of the GET after a failed request
referencia_response_retrying(u, outcome, how) ==
    /\ pc[u] = "get"
    /\ LET site   == target_site[u]
           loaded == load_stats(stats_file)
           stats  == Increment(loaded.stats, site, today)
           base   == [Ev("response", u, None) EXCEPT
                        !.site = site, !.outcome = outcome]
       IN  CASE outcome = "request_error" ->
                    /\ stats_file' = stats_file
                    /\ ev' = [base EXCEPT !.msg = "retrying"]
                    /\ pc' = [pc EXCEPT ![u] = "processing"]
             [] outcome = "other_error" ->
                    /\ stats_file' = stats_file
                    /\ ev' = [base EXCEPT !.msg = "unexpected_error"]
                    /\ pc' = [pc EXCEPT ![u] = "sleep"]
             [] outcome \in {"4xx", "5xx"} ->
                    /\ stats_file' = stats_file
                    /\ ev' = [base EXCEPT !.msg = "server_error"]
                    /\ pc' = [pc EXCEPT ![u] = "sleep"]
             [] outcome = "2xx" /\ loaded.raised ->
                    /\ stats_file' = stats_file
                    /\ ev' = [base EXCEPT !.msg = "unexpected_error"]
                    /\ pc' = [pc EXCEPT ![u] = "sleep"]
             [] outcome = "2xx" /\ ~loaded.raised ->
                    /\ stats_file' = save_stats(stats_file, stats, how)
                    /\ ev' = [base EXCEPT !.msg = "success",
                                          !.total = stats[site].total,
                                          !.day = stats[site].daily[today],
                                          !.saved = how]
                    /\ pc' = [pc EXCEPT ![u] = "sleep"]
    /\ UNCHANGED <<user_data, today, target_site, referencia_number,
                   n_requests, n_valid>>

\* lines 204-250: the response (or the exception) arrives; on success the
\* counters are loaded, incremented and saved, then the result is reported
referencia_response(u, outcome, how) ==
    /\ pc[u] = "get"
    /\ LET site   == target_site[u]
           loaded == load_stats(stats_file)
           stats  == Increment(loaded.stats, site, today)
           base   == [Ev("response", u, None) EXCEPT
                        !.site = site, !.outcome = outcome]
       IN  CASE outcome = "request_error" ->
                    /\ stats_file' = stats_file
                    /\ ev' = [base EXCEPT !.msg = "connection_failed"]
             [] outcome = "other_error" ->
                    /\ stats_file' = stats_file
                    /\ ev' = [base EXCEPT !.msg = "unexpected_error"]
             [] outcome \in {"2xx", "4xx", "5xx"} /\ raise_for_status(outcome) ->
                    /\ stats_file' = stats_file
                    /\ ev' = [base EXCEPT !.msg = "server_error"]
             [] outcome \in {"2xx", "4xx", "5xx"} /\ ~raise_for_status(outcome)
                  /\ loaded.raised ->
                    \* the exception of load_stats reaches `except Exception`
                    /\ stats_file' = stats_file
                    /\ ev' = [base EXCEPT !.msg = "unexpected_error"]
             [] outcome \in {"2xx", "4xx", "5xx"} /\ ~raise_for_status(outcome)
                  /\ ~loaded.raised ->
                    /\ stats_file' = save_stats(stats_file, stats, how)
                    /\ ev' = [base EXCEPT !.msg = "success",
                                          !.total = stats[site].total,
                                          !.day = stats[site].daily[today],
                                          !.saved = how]
    /\ pc' = [pc EXCEPT ![u] = "sleep"]
    /\ UNCHANGED <<user_data, today, target_site, referencia_number,
                   n_requests, n_valid>>

\* the end of the handler without the clearing of the target
referencia_finally_keeping(u) ==
    /\ pc[u] = "sleep"
    /\ pc' = [pc EXCEPT ![u] = "idle"]
    /\ target_site' = [target_site EXCEPT ![u] = None]
    /\ referencia_number' = [referencia_number EXCEPT ![u] = <<>>]
    /\ ev' = Ev("finally", u, "menu")
    /\ UNCHANGED <<user_data, stats_file, today, n_requests, n_valid>>

\* lines 251-255: the finally block, after the sleep
referencia_finally(u) ==
    /\ pc[u] = "sleep"
    /\ user_data' = [user_data EXCEPT ![u] = None]
    /\ pc' = [pc EXCEPT ![u] = "idle"]
    /\ target_site' = [target_site EXCEPT ![u] = None]
    /\ referencia_number' = [referencia_number EXCEPT ![u] = <<>>]
    /\ ev' = Ev("finally", u, "menu")
    /\ UNCHANGED <<stats_file, today, n_requests, n_valid>>

\* line 266 and lines 270-272 subscript every loaded entry
Subscriptable(stats) == \A name \in DOMAIN stats : stats[name].t = "obj"

\* lines 266-273: the text of the report
StatsReport(stats, today_date) ==
    IF ~Subscriptable(stats)
    THEN [msg |-> "raised", lines |-> NoLines]
    ELSE IF \A site \in DOMAIN stats : stats[site].total = 0
    THEN [msg |-> "no_references", lines |-> NoLines]
    ELSE [msg |-> "stats_lines",
          lines |-> [name \in DOMAIN stats |->
                        [total |-> stats[name].total,
                         today |-> IF today_date \in DOMAIN stats[name].daily
                                   THEN stats[name].daily[today_date] ELSE 0]]]

\* view-stats writing the loaded (migrated) store back to the file
stats_command_rewriting(u) ==
    /\ pc[u] = "idle"
    /\ LET loaded == load_stats(stats_file)
           report == StatsReport(loaded.stats, today)
       IN  IF loaded.raised
           THEN /\ ev' = Ev("stats", u, "load_raised")
                /\ stats_file' = stats_file
           ELSE /\ ev' = [Ev("stats", u, report.msg) EXCEPT !.lines = report.lines]
                /\ stats_file' = save_stats(stats_file, loaded.stats, "ok")
    /\ UNCHANGED <<user_data, today, pc, target_site,
                   referencia_number, n_requests, n_valid>>

\* lines 258-275
stats_command(u) ==
    /\ pc[u] = "idle"
    /\ LET loaded == load_stats(stats_file)
           report == StatsReport(loaded.stats, today)
       IN  IF loaded.raised
           THEN ev' = Ev("stats", u, "load_raised")
           ELSE ev' = [Ev("stats", u, report.msg) EXCEPT !.lines = report.lines]
    /\ UNCHANGED <<user_data, stats_file, today, pc, target_site,
                   referencia_number, n_requests, n_valid>>

\* midnight: datetime.now() moves to the next day
NextDay ==
    /\ today <= MaxMidnights
    /\ today' = today + 1
    /\ ev' = Ev("midnight", NoUser, None)
    /\ UNCHANGED <<user_data, stats_file, pc, target_site, referencia_number,
                   n_requests, n_valid>>

Next ==
    \/ \E u \in Users : start_command(u)
    \/ \E u \in Users : select_website_prompt(u)
    \/ \E u \in Users, choice \in Sites : button_handler(u, choice)
    \/ \E u \in Users, raw_text \in Texts : referencia_handler(u, raw_text)
    \/ \E u \in Users : referencia_get(u)
    \/ \E u \in Users, outcome \in Outcomes, how \in SaveOutcomes :
          (outcome = "2xx" \/ how = "ok") /\ referencia_response(u, outcome, how)
    \/ \E u \in Users : referencia_finally(u)
    \/ \E u \in Users : stats_command(u)
    \/ NextDay

Spec == Init /\ [][Next]_vars

\* asyncio resumes a suspended handler once what it awaits completes: the
\* reply is sent, the GET ends within its 15 s timeout, the sleep of 1.5 s ends
Fairness ==
    \A u \in Users :
        /\ WF_vars(referencia_get(u))
        /\ WF_vars(\E outcome \in Outcomes, how \in SaveOutcomes :
                      referencia_response(u, outcome, how))
        /\ WF_vars(referencia_finally(u))

FairSpec == Spec /\ Fairness

\* the sessions alone: the counter file starts absent, or as JSON that is
\* no object (the load after a successful dispatch then raises)
SessionInit == Init /\ stats_file.kind \in {"absent", "list"}

SessionSpec == SessionInit /\ [][Next]_vars /\ Fairness

\* two users whose dispatches all succeed and are all saved, from an absent
\* counter file: picks, texts and the steps of the handlers, interleaved
RaceInit == Init /\ stats_file.kind = "absent"

RaceNext ==
    \/ \E u \in Users, choice \in Sites : button_handler(u, choice)
    \/ \E u \in Users, raw_text \in Texts : referencia_handler(u, raw_text)
    \/ \E u \in Users : referencia_get(u)
    \/ \E u \in Users : referencia_response(u, "2xx", "ok")
    \/ \E u \in Users : referencia_finally(u)

RaceSpec == RaceInit /\ [][RaceNext]_vars

\* runs that start with no counter file, or with the file the older version
\* left: a bare integer for every configured destination
LedgerInit ==
    /\ Init
    /\ \/ stats_file.kind = "absent"
       \/ /\ stats_file.kind = "dict"
          /\ DOMAIN stats_file.m = Sites
          /\ \A site \in Sites : stats_file.m[site].t = "int"

LedgerSpec == LedgerInit /\ [][Next]_vars

----------------------------------------------------------------------------
(* Counts a file holds, read off its content: a name the file lacks, and a
   file that is no JSON object, count as zero; a bare integer is a total *)

TotalIn(f, name) ==
    IF f.kind = "dict" /\ name \in DOMAIN f.m THEN f.m[name].total ELSE 0

DailyIn(f, name, date) ==
    IF f.kind = "dict" /\ name \in DOMAIN f.m /\ date \in DOMAIN f.m[name].daily
    THEN f.m[name].daily[date] ELSE 0

Names == Sites \cup {OtherSite}

\* the step of user u in which the GET of u's handler ends
ResponseStep(u) == pc[u] = "get" /\ pc'[u] = "sleep"

----------------------------------------------------------------------------
(* C1 *)

\* C1: a dispatch that ends with a successful status, with the counters
\* loaded and saved, adds exactly 1 to the persisted total of the selected
\* destination and exactly 1 to its count for today, and leaves the counts
\* of every other destination and of every other date as they were.
C1_SuccessRecordsOnce ==
    [][\A u \in Users :
         (ResponseStep(u) /\ ev'.outcome = "2xx" /\ ev'.msg = "success"
            /\ ev'.saved = "ok")
         => \A name \in Names, date \in Dates :
              /\ TotalIn(stats_file', name) =
                   TotalIn(stats_file, name) + (IF name = target_site[u] THEN 1 ELSE 0)
              /\ DailyIn(stats_file', name, date) =
                   DailyIn(stats_file, name, date)
                     + (IF name = target_site[u] /\ date = today THEN 1 ELSE 0)]_vars

\* a second successful dispatch to a destination that already has counts
C1_Witness ==
    /\ ev.op = "response" /\ ev.msg = "success" /\ ev.saved = "ok"
    /\ TotalIn(stats_file, ev.site) >= 2
    /\ \E name \in Names \ {ev.site} : TotalIn(stats_file, name) >= 1

----------------------------------------------------------------------------
(* C2 *)

\* C2: when the dispatch ends in an error (4xx/5xx status, failed request,
\* any other exception) the counter file is left as it was; the file is
\* written only in the step that handles a successful status.
C2_ErrorLeavesCounters ==
    [][/\ \A u \in Users :
            (ResponseStep(u) /\ ev'.outcome # "2xx") => stats_file' = stats_file
       /\ stats_file' # stats_file => (ev'.op = "response" /\ ev'.outcome = "2xx")]_vars

C2_Witness ==
    /\ ev.op = "response" /\ ev.outcome = "5xx" /\ ev.msg = "server_error"
    /\ TotalIn(stats_file, ev.site) >= 1

----------------------------------------------------------------------------
(* C3 *)

\* C3: every dispatch attempt (a valid reference received with a destination
\* selected) is eventually followed by the user's session being idle with no
\* destination selected, whatever the outcome.
C3_AttemptEndsIdle ==
    \A u \in Users :
        (pc[u] = "processing") ~> (pc[u] = "idle" /\ user_data[u] = None)

\* a handler whose dispatch failed has finished and the selection is gone
C3_Witness ==
    /\ ev.op = "finally" /\ user_data[ev.user] = None /\ pc[ev.user] = "idle"
    /\ n_requests >= 1

----------------------------------------------------------------------------
(* C4 *)

\* C4: with destination D selected, a text that fails validation leaves D
\* selected, sends no request and leaves the counter file unchanged; a valid
\* reference received with D selected is dispatched to D.
C4_InvalidKeepsSelection ==
    [][/\ (ev'.op = "text" /\ ev'.msg = "invalid_format")
            => /\ user_data[ev'.user] \in Sites
               /\ user_data' = user_data
               /\ pc' = pc
               /\ n_requests' = n_requests
               /\ stats_file' = stats_file
       /\ \A u \in Users :
            (pc[u] = "idle" /\ pc'[u] = "processing")
            => /\ user_data[u] \in Sites
               /\ target_site'[u] = user_data[u]
       /\ (ev'.op = "get")
            => /\ ev'.site = user_data[ev'.user]
               /\ ev'.url = ENDPOINTS[user_data[ev'.user]].url]_vars

\* an invalid text was answered and the destination is still selected
C4_Witness ==
    /\ ev.op = "text" /\ ev.msg = "invalid_format"
    /\ user_data[ev.user] = "Financas Pagamento"

----------------------------------------------------------------------------
(* C5 *)

\* C5: with no destination selected, any free text, valid reference or not,
\* is answered by the select-a-website-first reply and nothing else happens:
\* no request, no change of the counter file, no change of the session.
C5_IdleTextDoesNothing ==
    [][(ev'.op = "text" /\ user_data[ev'.user] = None)
         => /\ ev'.msg = "select_first"
            /\ UNCHANGED <<user_data, stats_file, pc, target_site,
                           referencia_number, n_requests, n_valid>>]_vars

\* a valid 9-digit reference was sent with no destination selected
C5_Witness ==
    /\ ev.op = "text" /\ ev.msg = "select_first"
    /\ ev.ref = <<"1","2","3","4","5","6","7","8","9">>
    /\ n_requests = 0

----------------------------------------------------------------------------
(* C6 *)

\* C6 as stated: a Start event resets the session, no destination is
\* selected after it.
C6_StartResets ==
    [][(ev'.op = "start") => user_data'[ev'.user] = None]_vars

\* C6 as amended: a Start event leaves the session as it was, so a
\* destination selected before it is still selected after it.
C6_StartKeepsSelection ==
    [][(ev'.op = "start")
         => UNCHANGED <<user_data, stats_file, pc, target_site,
                        referencia_number, n_requests, n_valid>>]_vars

\* /start was handled with a destination selected, and it still is
C6_Witness ==
    /\ ev.op = "start" /\ user_data[ev.user] \in Sites

----------------------------------------------------------------------------
(* C7 *)

ZeroStore(stats) ==
    /\ DOMAIN stats = Sites
    /\ \A site \in Sites : stats[site].t = "obj" /\ stats[site].total = 0
                           /\ DOMAIN stats[site].daily = {}

\* C7: load never raises to its caller, whatever the file holds, and for a
\* file that is absent or cannot be parsed it returns the zero-valued store
\* whose names are exactly the configured destinations.  Stated of the load
\* a view-stats request makes (the step leaves the file as it was).
C7_LoadNeverRaises ==
    ev.op = "stats" =>
        LET loaded == load_stats(stats_file)
        IN  /\ ev.msg # "load_raised"
            /\ ~loaded.raised
            /\ stats_file.kind \in {"absent", "unreadable", "badjson", "badutf8"}
                 => ZeroStore(loaded.stats)

----------------------------------------------------------------------------
(* C8 *)

\* C8: load on a parseable file returns, for every configured destination,
\* zero counters when the file lacks it, {total: n, daily: {}} when the file
\* holds the bare integer n, and the stored object otherwise.  Stated of the
\* load a view-stats request makes.
C8_LoadBackfillsAndMigrates ==
    (ev.op = "stats" /\ stats_file.kind \in {"list", "dict"}) =>
        LET loaded == load_stats(stats_file)
        IN  /\ ev.msg # "load_raised"
            /\ ~loaded.raised
            /\ \A site \in Sites :
                 /\ site \in DOMAIN loaded.stats
                 /\ loaded.stats[site].t = "obj"
                 /\ loaded.stats[site].total = TotalIn(stats_file, site)
                 /\ \A date \in Dates :
                      (IF date \in DOMAIN loaded.stats[site].daily
                       THEN loaded.stats[site].daily[date] ELSE 0)
                        = DailyIn(stats_file, site, date)
                 /\ (stats_file.kind = "dict" /\ site \in DOMAIN stats_file.m
                       /\ stats_file.m[site].t = "obj")
                      => loaded.stats[site] = stats_file.m[site]
                 /\ (stats_file.kind = "dict" /\ site \in DOMAIN stats_file.m
                       /\ stats_file.m[site].t = "int")
                      => DOMAIN loaded.stats[site].daily = {}
                 /\ (stats_file.kind = "dict" /\ site \notin DOMAIN stats_file.m)
                      => DOMAIN loaded.stats[site].daily = {}

----------------------------------------------------------------------------
(* C9 *)

\* positions of raw_text that hold no whitespace
Kept(raw_text) == {i \in 1..Len(raw_text) : raw_text[i] \notin Whitespace}

\* the position of the n-th character of raw_text that is no whitespace
NthKept(raw_text, n) ==
    CHOOSE i \in Kept(raw_text) :
        Cardinality({j \in Kept(raw_text) : j <= i}) = n

\* C9: a text received with a destination selected is accepted exactly when
\* it holds 9 characters besides whitespace and all of them are decimal
\* digits; the reference the handler keeps, and sends under 'invoice', is
\* that text without its whitespace.
C9_ValidatorAcceptsNineDigits ==
    /\ (ev.op = "text" /\ ev.msg \in {"processing", "invalid_format"})
         => (ev.msg = "processing"
               <=> /\ Cardinality(Kept(ev.ref)) = 9
                   /\ \A i \in Kept(ev.ref) : ev.ref[i] \in Digit)
    /\ (ev.op = "text" /\ ev.msg = "processing")
         => LET number == referencia_number[ev.user]
            IN  /\ Len(number) = 9
                /\ \A n \in 1..9 : number[n] = ev.ref[NthKept(ev.ref, n)]
    /\ (ev.op = "get") => ev.ref = referencia_number[ev.user]
    /\ \A u \in Users :
         pc[u] # "idle" => /\ Len(referencia_number[u]) = 9
                           /\ \A n \in 1..9 : referencia_number[u][n] \in Digit

\* '123 456 789' was accepted and is kept as '123456789'
C9_Witness ==
    /\ ev.op = "text" /\ ev.msg = "processing"
    /\ ev.ref = <<"1","2","3"," ","4","5","6"," ","7","8","9">>
    /\ referencia_number[ev.user] = <<"1","2","3","4","5","6","7","8","9">>

----------------------------------------------------------------------------
(* C10 *)

\* C10: a view-stats request whose load returned a store reports "no
\* references sent yet" exactly when every total of the store is zero, and
\* otherwise one line per name of the store with its total and its count for
\* today (0 without an entry).
C10_StatsReport ==
    (ev.op = "stats" /\ ev.msg # "load_raised") =>
        IF \A name \in Names : TotalIn(stats_file, name) = 0
        THEN ev.msg = "no_references"
        ELSE /\ ev.msg = "stats_lines"
             /\ Sites \subseteq DOMAIN ev.lines
             /\ \A name \in DOMAIN ev.lines :
                  /\ ev.lines[name].total = TotalIn(stats_file, name)
                  /\ ev.lines[name].today = DailyIn(stats_file, name, today)

----------------------------------------------------------------------------
(* C11 *)

\* name holds a legacy bare integer in file f
LegacyIn(f, name) ==
    f.kind = "dict" /\ name \in DOMAIN f.m /\ f.m[name].t = "int"

\* C11: a view-stats request leaves every session's selected destination and
\* the counter file as they were; a legacy bare integer a file holds stays in
\* the file until the save that follows a successful dispatch.
C11_StatsOnlyLoads ==
    [][/\ (ev'.op = "stats")
            => /\ user_data' = user_data
               /\ stats_file' = stats_file
               /\ pc' = pc
       /\ \A name \in Names :
            (LegacyIn(stats_file, name) /\ ~LegacyIn(stats_file', name))
            => (ev'.op = "response" /\ ev'.outcome = "2xx" /\ ev'.msg = "success")]_vars

\* stats were reported with a destination selected and a legacy bare
\* integer of a configured destination still in the file
C11_Witness ==
    /\ ev.op = "stats" /\ ev.msg = "stats_lines"
    /\ user_data[ev.user] \in Sites
    /\ \E site \in Sites : LegacyIn(stats_file, site) /\ ev.lines[site].total = 1

----------------------------------------------------------------------------
(* C12 *)

\* C12: a choose-destination request clears the user's selection, whatever
\* it was; a cleared selection stays cleared until that user picks a
\* destination, and while it is cleared no text of the user starts a
\* dispatch.
C12_PromptClearsSelection ==
    [][/\ (ev'.op = "select")
            => /\ user_data'[ev'.user] = None
               /\ \A u \in Users \ {ev'.user} : user_data'[u] = user_data[u]
               /\ pc' = pc
               /\ n_requests' = n_requests
       /\ \A u \in Users :
            (user_data[u] = None /\ user_data'[u] # None)
            => (ev'.op = "button" /\ ev'.user = u)
       /\ \A u \in Users :
            (user_data[u] = None /\ pc[u] = "idle")
            => (pc'[u] = "idle" /\ (ev'.user = u => n_requests' = n_requests))]_vars

\* the request arrived with a destination selected, and cleared it
C12_Witness ==
    /\ ev.op = "select" /\ ev.site = "EDP Comercial"
    /\ user_data[ev.user] = None

----------------------------------------------------------------------------
(* C13 *)

----------------------------------------------------------------------------
(* C14 *)

\* handlers that have accepted a reference and not yet issued their request
Pending == {u \in Users : pc[u] = "processing"}

\* C14: every valid reference received with a destination selected causes
\* exactly one request: the requests sent so far are the valid references
\* received so far, less those whose handler has not yet issued its request;
\* however a request ends, its handler issues no further one.
C14_OneRequestPerReference ==
    /\ n_valid = n_requests + Cardinality(Pending)
    /\ (\A u \in Users : pc[u] \in {"idle", "sleep"}) => n_requests = n_valid
    /\ (ev.op = "response") => pc[ev.user] = "sleep"
    /\ (ev.op = "finally") => pc[ev.user] = "idle"

\* a request failed, and it is the only request of the only valid reference
C14_Witness ==
    /\ ev.op = "response" /\ ev.outcome = "request_error"
    /\ n_valid = 1 /\ n_requests = 1

----------------------------------------------------------------------------
(* C15 *)

\* handlers whose GET has not ended yet
InFlight == {u \in Users : pc[u] = "get"}

\* both users' handlers have recorded a successful dispatch to site and
\* neither has finished: the two handlers ran interleaved
BothRecorded(site) ==
    /\ \A u \in Users : pc[u] = "sleep" /\ target_site[u] = site
    /\ n_requests = 2

\* C15 as stated, as the final result of two interleaved successful
\* dispatches to one destination: the persisted total is up by 1, not by 2.
C15_UpdateLost ==
    \A site \in Sites : BothRecorded(site) => TotalIn(stats_file, site) = 1

\* C15 as amended: no update is lost.  When every dispatch succeeds and is
\* saved, the persisted totals add up to the number of dispatches that have
\* ended, however the handlers of the two users interleave, and two
\* interleaved dispatches to one destination leave its total up by 2.
C15_NoUpdateLost ==
    /\ TotalIn(stats_file, "EDP Comercial") + TotalIn(stats_file, "Financas Pagamento")
         = n_requests - Cardinality(InFlight)
    /\ \A site \in Sites :
         BothRecorded(site)
         => /\ TotalIn(stats_file, site) = 2
            /\ DailyIn(stats_file, site, today) = 2

\* both users' requests to the same destination were in flight together,
\* one has been recorded and the other is about to be
C15_Witness ==
    /\ ev.op = "response" /\ ev.msg = "success" /\ ev.saved = "ok"
    /\ \A u \in Users : target_site[u] = "EDP Comercial"
    /\ \E u \in Users : pc[u] = "get"
    /\ n_requests = 2
    /\ TotalIn(stats_file, "EDP Comercial") = 1

----------------------------------------------------------------------------
(* C16 *)

\* C16: when the dispatch succeeds and the save of the counters fails, the
\* file keeps the content it had, the user is sent the success report with
\* the total and today's count incremented, no error is reported and the
\* handler goes on to its end (the finally block, which returns the session
\* to Idle).
C16_FailedSaveKeepsFile ==
    [][\A u \in Users :
         (/\ ResponseStep(u)
          /\ ev'.outcome = "2xx"
          /\ ~load_stats(stats_file).raised
          /\ ev'.saved \in SaveOutcomes \ {"ok"})
         => /\ stats_file' = stats_file
            /\ ev'.msg = "success"
            /\ ev'.total = TotalIn(stats_file, target_site[u]) + 1
            /\ ev'.day = DailyIn(stats_file, target_site[u], today) + 1
            /\ ENABLED referencia_finally(u)]_vars

----------------------------------------------------------------------------
(* C17 *)

\* an entry in the {total, daily} shape with non-negative counts
WellShaped(entry) ==
    /\ entry.t = "obj"
    /\ entry.total \in Nat
    /\ \A date \in DOMAIN entry.daily : entry.daily[date] \in Nat

\* the step wrote a whole store to the counter file
WroteStore == stats_file' # stats_file /\ stats_file'.kind = "dict"

\* C17: every store the program writes to the counter file holds, for every
\* configured destination, an entry in the {total, daily} shape with
\* non-negative counts; no legacy bare integer of a configured destination is
\* written back.
C17_WrittenStoreShape ==
    [][WroteStore
       => \A site \in Sites :
            /\ site \in DOMAIN stats_file'.m
            /\ WellShaped(stats_file'.m[site])
            /\ ~LegacyIn(stats_file', site)]_vars

\* a file with a legacy bare integer for the destination that was not picked
\* and no entry for the one that was, after the save of a success
C17_Witness ==
    /\ ev.op = "response" /\ ev.msg = "success" /\ ev.saved = "ok"
    /\ ev.site = "EDP Comercial" /\ ev.total = 1
    /\ stats_file.kind = "dict"
    /\ stats_file.m["Financas Pagamento"] = ObjV(1, EmptyFn)
    /\ stats_file.m["EDP Comercial"] = ObjV(1, today :> 1)

----------------------------------------------------------------------------
(* C18 *)

RECURSIVE SumDaily(_, _, _)
\* the sum of the per-day counts a file holds for name, over dates 1..d
SumDaily(f, name, d) ==
    IF d = 0 THEN 0 ELSE DailyIn(f, name, d) + SumDaily(f, name, d - 1)

\* what the persisted total holds besides the per-day counts
Surplus(f, site) == TotalIn(f, site) - SumDaily(f, site, MaxMidnights + 1)

\* C18: from an absent file the persisted total of every configured
\* destination equals the sum of its per-day counts, and from a legacy value
\* n it equals n plus that sum, in every reachable state: the difference
\* between total and sum is 0, or n, at the start and no step changes it.
C18_TotalIsSumOfDays ==
    /\ \A site \in Sites :
         Surplus(stats_file, site) =
            IF LegacyIn(stats_file, site) THEN stats_file.m[site].total ELSE 0
    /\ [][\A site \in Sites :
            Surplus(stats_file', site) = Surplus(stats_file, site)]_vars

----------------------------------------------------------------------------
(* C19 *)

\* C19: the selected destination of every session is none or a configured
\* destination; the destination a handler took from the session is a
\* configured one, so the lookup ENDPOINTS[target_site] made before the
\* request finds its endpoint and the handler goes on to the request, and
\* from there to the finally block that returns the session to Idle.
C19_SelectionIsConfigured ==
    \A u \in Users :
        /\ user_data[u] \in Sites \cup {None}
        /\ (pc[u] = "idle") => target_site[u] = None
        /\ (pc[u] # "idle") => /\ target_site[u] \in DOMAIN ENDPOINTS
                               /\ user_data[u] = target_site[u]
        /\ (pc[u] = "processing") => ENABLED referencia_get(u)

\* a handler that has accepted a reference and is about to look up the
\* endpoint of the destination picked last
C19_Witness ==
    /\ ev.op = "text" /\ ev.msg = "processing"
    /\ pc[ev.user] = "processing"
    /\ target_site[ev.user] = "Financas Pagamento"
    /\ user_data[ev.user] = "Financas Pagamento"

====
